---- MODULE Spec2Model ----
(***************************************************************************)
(* Model of rpw/collector.py: the Collector wrapper around a Revit         *)
(* FilteredElementCollector, its _Filter callable (coercion, merge, chain) *)
(* and the element store the collector enumerates.                         *)
(*                                                                         *)
(* Python values are records [kind, val] so that values of different       *)
(* Python types can be compared.  A dict is a function from names to       *)
(* values; its iteration order, which Python 2 leaves unspecified, is a    *)
(* sequence of names chosen nondeterministically for every call.           *)
(*                                                                         *)
(* The FilteredElementCollector is one mutable object: OfClass, OfCategory *)
(* and the Where... methods add a filter to the object they are called on  *)
(* and return that object.  chain() drops the returned reference and keeps *)
(* using `collector`, which is the same object, so the model threads one   *)
(* handle value through the chain and keeps it in revit_object.            *)
(*                                                                         *)
(* A behaviour is the life of one collector: it is constructed by one      *)
(* caller, who then calls filter any number of times with keywords and     *)
(* values of that caller's vocabulary.                                     *)
(***************************************************************************)
EXTENDS Integers, Sequences, FiniteSets, TLC

-----------------------------------------------------------------------------
(* Bounds *)

\* largest number of keyword arguments of one filter(...) / Collector(...) call
MaxArgs == 2

-----------------------------------------------------------------------------
(* Python values *)

V(kind, val) == [kind |-> kind, val |-> val]

PyTrue  == V("bool", "True")
PyFalse == V("bool", "False")
\* the absent argument of a zero-argument engine call
NoArg   == V("none", "")

\* the empty dict
EmptyDict == [n \in {} |-> NoArg]

\* _Filter.MAP
MAP ==
  [ of_class            |-> "OfClass",
    of_category         |-> "OfCategory",
    is_element          |-> "WhereElementIsNotElementType",
    is_element_type     |-> "WhereElementIsElementType",
    is_view_independent |-> "WhereElementIsViewIndependent",
    parameter_filter    |-> "WherePasses" ]

\* BuiltInCategoryEnum.by_name: the registry of category names
CategoryRegistry == [ OST_Walls |-> "-2000011" ]

\* getattr(DB, class_name): the classes of the Revit.DB namespace
DBNamespace == [ Wall |-> "DB.Wall", WallType |-> "DB.WallType" ]

isinstance(value, kind) == value.kind = kind

\* Python truthiness of a value (`if category_name and ...`)
truthy(value) ==
  CASE value.kind = "none" -> FALSE
    [] value.kind = "str"  -> value.val # ""
    [] value.kind = "bool" -> value.val = "True"
    [] OTHER               -> TRUE

\* dict.get(name): None when the name is absent
get(d, name) == IF name \in DOMAIN d THEN d[name] ELSE NoArg

-----------------------------------------------------------------------------
(* The element store (`doc`) and the query engine *)

Elem(cls, cat, typ, vi, h) ==
  [class |-> cls, category |-> cat, is_type |-> typ, view_independent |-> vi,
   height |-> h]

\* the document's elements in the engine's natural enumeration order
Store ==
  << Elem("DB.Wall",     "-2000011", FALSE, FALSE, 3),
     Elem("DB.Wall",     "-2000011", FALSE, TRUE,  1),
     Elem("DB.WallType", "-2000011", TRUE,  TRUE,  3),
     Elem("DB.WallType", "-2000011", TRUE,  FALSE, 1),
     Elem("DB.Door",     "-2000023", FALSE, FALSE, 3),
     Elem("DB.DoorType", "-2000023", TRUE,  TRUE,  1) >>

\* the elements visible in the view a collector may be scoped to
InView(i) == i \in {1, 2, 5}

\* the unbound handle of chain's `collector=None` default
None == [scope |-> "None", applied |-> {}]

\* DB.FilteredElementCollector(doc) / DB.FilteredElementCollector(doc, view.Id)
FilteredElementCollector(scope) == [scope |-> scope, applied |-> {}]

\* the predicate a ParameterFilter built from ('Height', greater=2) carries
RulePasses(e, rule) ==
  CASE rule = "Height>2" -> e.height > 2
    [] OTHER             -> FALSE

\* does element e pass the filter an engine operation has added
Passes(e, op, arg) ==
  CASE op = "OfClass"                       -> arg.kind = "type" /\ e.class = arg.val
    [] op = "OfCategory"                    -> arg.kind = "cat" /\ e.category = arg.val
    [] op = "WhereElementIsNotElementType"  -> ~e.is_type
    [] op = "WhereElementIsElementType"     -> e.is_type
    [] op = "WhereElementIsViewIndependent" -> e.view_independent
    [] op = "WherePasses"                   -> arg.kind = "rule" /\ RulePasses(e, arg.val)
    [] OTHER                                -> FALSE

\* does the engine method op take the argument arg: OfClass takes a class,
\* OfCategory a category, WherePasses a filter object and the Where...
\* methods nothing; any other call raises TypeError
EngineAccepts(op, arg) ==
  CASE op = "OfClass"     -> arg.kind = "type"
    [] op = "OfCategory"  -> arg.kind = "cat"
    [] op = "WherePasses" -> arg.kind = "rule"
    [] OTHER              -> arg = NoArg

\* faulty variant: the engine call leaves the collector object as it is
ApplyFilter_noop(collector, op, arg) == collector

\* getattr(collector, op)(arg): the filter is added to the collector object
ApplyFilter(collector, op, arg) ==
  [collector EXCEPT !.applied = @ \cup {<<op, arg>>}]

InScope(collector, i) == collector.scope = "doc" \/ InView(i)

Matches(collector, i) ==
  /\ InScope(collector, i)
  /\ \A f \in collector.applied : Passes(Store[i], f[1], f[2])

\* [element for element in filtered_collector]: elements are named by their
\* position in the store
Enumerate(collector) ==
  SelectSeq([i \in 1..Len(Store) |-> i], LAMBDA i : Matches(collector, i))

-----------------------------------------------------------------------------
(* _Filter *)

\* BuiltInCategoryEnum.by_name(category_name)
by_name(category_name) ==
  IF category_name \in DOMAIN CategoryRegistry
  THEN [err |-> "none", value |-> V("cat", CategoryRegistry[category_name])]
  ELSE [err |-> "UnknownIdentifierError", value |-> NoArg]

\* getattr(DB, class_name)
getattr_DB(class_name) ==
  IF class_name \in DOMAIN DBNamespace
  THEN [err |-> "none", value |-> V("type", DBNamespace[class_name])]
  ELSE [err |-> "AttributeError", value |-> NoArg]

\* d[name] = value
setitem(d, name, value) ==
  [n \in DOMAIN d \cup {name} |-> IF n = name THEN value ELSE d[n]]

\* faulty variant: the string shortcuts are left as they are
coerce_filter_values_unresolved(filters) == [err |-> "none", filters |-> filters]

\* _Filter.coerce_filter_values
coerce_filter_values(filters) ==
  LET category_name == get(filters, "of_category")
      cat == IF truthy(category_name) /\ isinstance(category_name, "str")
             THEN by_name(category_name.val)
             ELSE [err |-> "none", value |-> category_name]
      filters1 == IF truthy(category_name) /\ isinstance(category_name, "str")
                     /\ cat.err = "none"
                  THEN setitem(filters, "of_category", cat.value)
                  ELSE filters
      class_name == get(filters1, "of_class")
      cls == IF truthy(class_name) /\ isinstance(class_name, "str")
             THEN getattr_DB(class_name.val)
             ELSE [err |-> "none", value |-> class_name]
      filters2 == IF truthy(class_name) /\ isinstance(class_name, "str")
                     /\ cls.err = "none"
                  THEN setitem(filters1, "of_class", cls.value)
                  ELSE filters1
  IN  IF cat.err # "none" THEN [err |-> cat.err, filters |-> filters]
      ELSE IF cls.err # "none" THEN [err |-> cls.err, filters |-> filters1]
      ELSE [err |-> "none", filters |-> filters2]

\* filters.iteritems(): the names of the dict in its iteration order
iteritems(filters, order) == SelectSeq(order, LAMBDA n : n \in DOMAIN filters)

\* faulty variant: the entry stays in the work queue
pop_keeps_entry(filter_stack, filter_name) == filter_stack

\* filter_stack.pop(filter_name)
pop(filter_stack, filter_name) ==
  [n \in DOMAIN filter_stack \ {filter_name} |-> filter_stack[n]]

\* was _revit_object ever set on the ParameterFilter: only a recognised
\* comparator sets it (line 258)
has_revit_object(filter_value) == filter_value.val # ""

\* ParameterFilter._revit_object: the ElementParameterFilter of the rule
revit_object_of(filter_value) == V("rule", filter_value.val)

\* collector_filter(*args): the engine call, which raises on a wrong argument
EngineCall(collector, op, arg) ==
  IF EngineAccepts(op, arg)
  THEN [err |-> "none", collector |-> ApplyFilter(collector, op, arg), calls |-> 1]
  ELSE [err |-> "TypeError", collector |-> collector, calls |-> 1]

\* faulty variant: a toggle restricts whatever its value
ApplyCriterion_any_bool(collector, filter_name, filter_value) ==
  IF isinstance(filter_value, "bool")
  THEN EngineCall(collector, MAP[filter_name], NoArg)
  ELSE IF isinstance(filter_value, "pf")
  THEN IF has_revit_object(filter_value)
       THEN EngineCall(collector, MAP[filter_name], revit_object_of(filter_value))
       ELSE [err |-> "AttributeError", collector |-> collector, calls |-> 0]
  ELSE EngineCall(collector, MAP[filter_name], filter_value)

\* the body of chain's for loop for one name: the engine call of lines 143-149
ApplyCriterion(collector, filter_name, filter_value) ==
  IF isinstance(filter_value, "bool")
  THEN IF filter_value = PyTrue
       THEN EngineCall(collector, MAP[filter_name], NoArg)
       ELSE [err |-> "none", collector |-> collector, calls |-> 0]
  ELSE IF isinstance(filter_value, "pf")
  THEN IF has_revit_object(filter_value)
       THEN EngineCall(collector, MAP[filter_name], revit_object_of(filter_value))
       ELSE \* line 147: filter_value._revit_object does not exist
            [err |-> "AttributeError", collector |-> collector, calls |-> 0]
  ELSE EngineCall(collector, MAP[filter_name], filter_value)

RECURSIVE chain(_, _, _, _)
RECURSIVE ChainLoop(_, _, _, _, _, _, _, _)

\* faulty variant: the loop returns after its first item
ChainLoop_returns_early(self, filters, order, items, i, filter_stack, collector, calls) ==
  IF i > Len(items)
  THEN [err |-> "none", collector |-> collector, calls |-> calls]
  ELSE IF items[i] \notin DOMAIN MAP
  THEN [err |-> "KeyError", collector |-> collector, calls |-> calls]
  ELSE LET step == ApplyCriterion(collector, items[i], filters[items[i]])
       IN  [err |-> step.err, collector |-> step.collector, calls |-> calls + step.calls]

\* the for loop of chain from its i-th item on; filter_stack and collector are
\* the loop's local state, calls counts the engine calls made so far
ChainLoop(self, filters, order, items, i, filter_stack, collector, calls) ==
  IF i > Len(items)
  THEN [err |-> "none", collector |-> collector, calls |-> calls]
  ELSE LET filter_name  == items[i]
           filter_value == filters[filter_name]
       IN  IF filter_name \notin DOMAIN MAP
           THEN \* line 138: _Filter.MAP[filter_name] raises before line 140
                [err |-> "KeyError", collector |-> collector, calls |-> calls]
           ELSE LET step  == ApplyCriterion(collector, filter_name, filter_value)
                    stack == pop(filter_stack, filter_name)
                    rec   == chain(self, stack, order, step.collector)
                IN  IF step.err # "none"
                    THEN [err |-> step.err, collector |-> step.collector,
                          calls |-> calls + step.calls]
                    ELSE IF rec.err # "none"
                    THEN [rec EXCEPT !.calls = @ + calls + step.calls]
                    ELSE ChainLoop(self, filters, order, items, i + 1, stack,
                                   rec.collector, calls + step.calls + rec.calls)

\* faulty variant: every top-level chain starts from a new, unrestricted handle
chain_fresh_handle(self, filters, order, collector) ==
  LET base == IF collector = None THEN FilteredElementCollector(self.scope)
              ELSE collector
  IN  ChainLoop(self, filters, order, iteritems(filters, order), 1, filters, base, 0)

\* _Filter.chain(filters, collector=None); self is the collector's handle
chain(self, filters, order, collector) ==
  LET base == IF collector = None THEN self ELSE collector
  IN  ChainLoop(self, filters, order, iteritems(filters, order), 1, filters, base, 0)

\* faulty variant: the new criteria replace the accumulated ones
Merge_replacing(old, filters) == filters

\* the merge loop of __call__ (lines 113-114)
Merge(old, filters) ==
  [n \in DOMAIN old \cup DOMAIN filters |->
     IF n \in DOMAIN filters THEN filters[n] ELSE old[n]]

\* faulty variant: `elements` is assigned also when the chain raised
Call_assigns_on_failure(c, kwargs, order) ==
  LET co == coerce_filter_values(kwargs)
      merged == Merge(c.filters, co.filters)
      ch == chain(c.revit_object, merged, order, None)
  IN  IF co.err # "none"
      THEN [err |-> co.err, c |-> c, calls |-> 0]
      ELSE [err |-> ch.err, calls |-> ch.calls,
            c |-> [filters |-> merged, elements |-> Enumerate(ch.collector),
                   revit_object |-> ch.collector]]

\* _Filter.__call__ on the collector c = [filters, elements, revit_object];
\* err # "none" means the call raised, c is then the state it left behind
Call(c, kwargs, order) ==
  LET co == coerce_filter_values(kwargs)
      merged == Merge(c.filters, co.filters)
      ch == chain(c.revit_object, merged, order, None)
  IN  IF co.err # "none"
      THEN [err |-> co.err, c |-> c, calls |-> 0]
      ELSE IF ch.err # "none"
      THEN [err |-> ch.err, calls |-> ch.calls,
            c |-> [filters |-> merged, elements |-> c.elements,
                   revit_object |-> ch.collector]]
      ELSE [err |-> "none", calls |-> ch.calls,
            c |-> [filters |-> merged, elements |-> Enumerate(ch.collector),
                   revit_object |-> ch.collector]]

\* Collector.__init__(**filters)
CollectorInit(kwargs, order) ==
  LET collector == IF "view" \in DOMAIN kwargs
                   THEN FilteredElementCollector("view")
                   ELSE FilteredElementCollector("doc")
      c0 == [filters |-> kwargs, elements |-> << >>, revit_object |-> collector]
  IN  IF kwargs # EmptyDict
      THEN Call(c0, kwargs, order)
      ELSE [err |-> "none", c |-> c0, calls |-> 0]

-----------------------------------------------------------------------------
(* ParameterFilter *)

\* ParameterFilter.RULES
RULES ==
  [ equals        |-> "CreateEqualsRule",
    contains      |-> "CreateContainsRule",
    begins        |-> "CreateBeginsWithRule",
    ends          |-> "CreateEndsWithRule",
    greater       |-> "CreateGreaterRule",
    greater_equal |-> "CreateGreaterOrEqualRule",
    less          |-> "CreateLessRule",
    less_equal    |-> "CreateLessOrEqualRule" ]

CASE_SENSITIVE == PyTrue

FLOAT_PRECISION == V("float", "0.0013020833333333")

\* dict.get(name, default)
getdefault(d, name, default) == IF name \in DOMAIN d THEN d[name] ELSE default

\* [x for x in conditions if x in ParameterFilter.RULES], order being the
\* iteration order of conditions
valid_rule(conditions, order) ==
  SelectSeq(order, LAMBDA x : x \in DOMAIN conditions /\ x \in DOMAIN RULES)

\* faulty variant: a float operand is followed by the precision field
RuleArgs_passes_precision(self, condition_value) ==
  LET args0 == << condition_value >>
      args1 == IF isinstance(condition_value, "str")
               THEN Append(args0, self.case_sensitive) ELSE args0
  IN  IF isinstance(condition_value, "float")
      THEN Append(args1, self.precision) ELSE args1

\* lines 244-250: the arguments that follow parameter_id in the factory call
RuleArgs(self, condition_value) ==
  LET args0 == << condition_value >>
      args1 == IF isinstance(condition_value, "str")
               THEN Append(args0, self.case_sensitive) ELSE args0
  IN  IF isinstance(condition_value, "float")
      THEN Append(args1, V("float", "1.0")) ELSE args1

\* getattr(DB.ParameterFilterRuleFactory, rule_factory_name)(parameter_id, *args):
\* the rule object records the factory method and the arguments it was made with
filter_value_rule(rule_factory_name, parameter_id, args) ==
  [factory |-> rule_factory_name, args |-> << parameter_id >> \o args]

\* DB.ElementParameterFilter(filter_rule, inverted)
ElementParameterFilter(filter_rule, inverted) ==
  [rule |-> filter_rule, inverted |-> inverted]

\* faulty variant: an attribute that is set is not assigned again
setattr_once(self, name, value) ==
  IF name \in DOMAIN self THEN self ELSE setitem(self, name, value)

\* self.<name> = value
setattr(self, name, value) == setitem(self, name, value)

RECURSIVE RuleLoop(_, _, _, _)

\* the for loop of __init__ from the i-th valid rule on (lines 237-258);
\* made lists the factory calls made so far
RuleLoop(self, valid, i, made) ==
  IF i > Len(valid)
  THEN [self |-> self, made |-> made]
  ELSE LET condition_name  == valid[i]
           condition_value == self.conditions[condition_name]
           filter_rule == filter_value_rule(RULES[condition_name], self.parameter_id,
                                            RuleArgs(self, condition_value))
       IN  RuleLoop(setattr(self, "_revit_object",
                            ElementParameterFilter(filter_rule, self.reverse)),
                    valid, i + 1, Append(made, filter_rule))

\* ParameterFilter.__init__(parameter_id, **conditions): the attributes of
\* the object it leaves and the factory calls it made
ParameterFilterInit(parameter_id, conditions, order) ==
  LET self == [ parameter_id   |-> parameter_id,
                conditions     |-> conditions,
                case_sensitive |-> getdefault(conditions, "case_sensitive", CASE_SENSITIVE),
                reverse        |-> getdefault(conditions, "reverse", PyFalse),
                precision      |-> getdefault(conditions, "precision", FLOAT_PRECISION) ]
  IN  RuleLoop(self, valid_rule(conditions, order), 1, << >>)

-----------------------------------------------------------------------------
(* The inputs of the calls *)

\* a name outside _Filter.MAP
Bogus == "bogus_key"

Bools == {PyTrue, PyFalse}

\* The vocabularies of the callers modelled: each gives, for the keywords its
\* caller uses, the values it passes for them.
Vocabularies ==
  { \* classes and toggles
    [ of_class            |-> {V("type", "DB.Wall"), V("type", "DB.WallType")},
      is_element_type     |-> Bools,
      is_view_independent |-> Bools ],
    \* a misspelt keyword among valid ones
    [ of_class        |-> {V("type", "DB.Wall"), V("type", "DB.WallType")},
      is_element_type |-> Bools,
      bogus_key       |-> {V("int", "1")} ],
    \* string shortcuts next to the enumeration members and classes
    [ of_category |-> {V("cat", "-2000011"), V("str", "OST_Walls"), V("str", "OST_NoSuch")},
      of_class    |-> {V("str", "Wall"), V("str", "NoSuchClass"), V("str", "")},
      is_element  |-> Bools ],
    \* parameter rules: ParameterFilter('Height', greater=2) and the
    \* ParameterFilter('Height', less_than=10) of the class's docstring
    [ parameter_filter    |-> {V("pf", "Height>2"), V("pf", "")},
      is_element          |-> Bools,
      is_view_independent |-> {PyTrue} ] }

\* the conditions the callers of ParameterFilter(parameter_id, ...) pass:
\* comparators with textual, floating-point and integer operands, the
\* modifiers, and the less_than of the class's docstring
ConditionVocabulary ==
  [ equals         |-> {V("str", "Wall 1"), V("int", "10")},
    greater        |-> {V("float", "2.5"), V("int", "10")},
    less           |-> {V("float", "2.5")},
    contains       |-> {V("str", "Wall")},
    less_than      |-> {V("int", "10")},
    case_sensitive |-> Bools,
    reverse        |-> Bools,
    precision      |-> {V("float", "0.5")} ]

\* the values passed for the `view` keyword of Collector(...)
Views == {V("view", "View1")}

\* the keyword dicts with at most MaxArgs entries a vocabulary allows
Kwargs(voc) ==
  UNION { {kw \in [S -> UNION {voc[n] : n \in S}] : \A n \in S : kw[n] \in voc[n]} :
          S \in {T \in SUBSET DOMAIN voc : Cardinality(T) <= MaxArgs} }

\* the vocabulary of the constructor: it also takes `view`
WithView(voc) ==
  [n \in DOMAIN voc \cup {"view"} |-> IF n = "view" THEN Views ELSE voc[n]]

\* the iteration orders a dict with the names S may have
Orders(S) ==
  {o \in [1..Cardinality(S) -> S] : \A i, j \in 1..Cardinality(S) : o[i] = o[j] => i = j}

-----------------------------------------------------------------------------
(* The state machine: one collector, constructed and then filtered *)

VARIABLES
  phase,         \* "none": not constructed, "live", "failed": __init__ raised
  filters,       \* Collector._filters
  elements,      \* Collector.elements
  revit_object,  \* Collector._revit_object
  err,           \* the exception the last call raised, "none" if it returned
  ret,           \* what the last call returned: "self", or "none" if it raised
  last,          \* the last call: its name, arguments and engine calls
  materialized,  \* has line 118 ever assigned `elements` on this collector
  vocabulary,    \* the keywords and values the collector's caller uses
  heap,          \* the dict objects of a chain followed step by step
  frames,        \* the active calls of chain, the innermost last
  dict_order,    \* the iteration order of the dicts of that chain
  pf             \* a ParameterFilter: its constructor's arguments and the object

vars == <<phase, filters, elements, revit_object, err, ret, last, materialized,
          vocabulary, heap, frames, dict_order, pf>>

\* the variables of the collector
collectorVars == <<phase, filters, elements, revit_object, err, ret, last, materialized>>

\* the variables of the chain followed step by step
chainVars == <<heap, frames, dict_order>>

\* no ParameterFilter is being followed
NoFilter == [pc |-> "none"]

Self == [filters |-> filters, elements |-> elements, revit_object |-> revit_object]

Init ==
  /\ phase = "none"
  /\ filters = EmptyDict
  /\ elements = << >>
  /\ revit_object = None
  /\ err = "none"
  /\ ret = "none"
  /\ last = [op |-> "none", kwargs |-> EmptyDict, calls |-> 0]
  /\ materialized = FALSE
  /\ vocabulary \in Vocabularies
  /\ heap = << >>
  /\ frames = << >>
  /\ dict_order = << >>
  /\ pf = NoFilter

\* the state a call leaves behind and what the caller observes of it
Outcome(op, kwargs, r) ==
  /\ filters' = r.c.filters
  /\ elements' = r.c.elements
  /\ revit_object' = r.c.revit_object
  /\ err' = r.err
  /\ ret' = IF r.err = "none" THEN "self" ELSE "none"
  /\ last' = [op |-> op, kwargs |-> kwargs, calls |-> r.calls]
  /\ materialized' = (materialized \/ (r.err = "none" /\ kwargs # EmptyDict)
                                     \/ (r.err = "none" /\ op = "filter"))

\* collector = Collector(**kwargs); the call ends in one of the ways the
\* iteration orders of its dict allow
New ==
  /\ phase = "none"
  /\ \E kwargs \in Kwargs(WithView(vocabulary)) :
       \E r \in {CollectorInit(kwargs, order) : order \in Orders(DOMAIN kwargs)} :
         /\ Outcome("new", kwargs, r)
         /\ phase' = IF r.err = "none" THEN "live" ELSE "failed"
         /\ UNCHANGED <<vocabulary, chainVars, pf>>

\* collector.filter(**kwargs); the call ends in one of the ways the
\* iteration orders of the accumulated dict allow
Filter ==
  /\ phase = "live"
  /\ \E kwargs \in Kwargs(vocabulary) :
       \E r \in {Call(Self, kwargs, order) :
                   order \in Orders(DOMAIN filters \cup DOMAIN kwargs)} :
         /\ Outcome("filter", kwargs, r)
         /\ UNCHANGED <<phase, vocabulary, chainVars, pf>>

Next == New \/ Filter

Spec == Init /\ [][Next]_vars

-----------------------------------------------------------------------------
(* One call of chain followed step by step *)

\* Dicts are objects: heap[r] is the content of the dict with reference r, and
\* heap[1] is Collector._filters, the dict line 116 hands to chain.  A frame is
\* one active call of chain: `filters` refers to the dict it was given,
\* `filter_stack` to its work queue, `items` is what filters.iteritems()
\* yields, `i` the position of the for loop in it, and `given` records the
\* content the dict had when the call was entered.  The `collector` of every
\* frame is the collector's one handle object, revit_object.

\* faulty variant: the work queue is the given dict itself
copy_aliasing(h, ref) == [heap |-> h, ref |-> ref]

\* copy(filters): a new dict object with the content of the dict ref
copy(h, ref) == [heap |-> Append(h, h[ref]), ref |-> Len(h) + 1]

\* the state of a call chain(filters, ...) at the head of its for loop
\* (lines 132-137), cp being the copy line 136 has made
Frame(cp, ref, ord) ==
  [ filters      |-> ref,
    given        |-> cp.heap[ref],
    filter_stack |-> cp.ref,
    items        |-> iteritems(cp.heap[ref], ord),
    i            |-> 1 ]

\* the innermost active call and the item its for loop is at
Top == frames[Len(frames)]

AtItem == Len(frames) > 0 /\ Top.i <= Len(Top.items)

\* the accumulated criteria a collector can hold when chain is called: what
\* calls have merged, string shortcuts resolved
Accumulated(voc) ==
  { coerce_filter_values(kw).filters :
      kw \in {k \in Kwargs(voc) : coerce_filter_values(k).err = "none"} }

InitChain ==
  /\ phase = "live"
  /\ vocabulary \in Vocabularies
  /\ filters \in Accumulated(vocabulary)
  /\ elements = << >>
  /\ revit_object = FilteredElementCollector("doc")
  /\ err = "none"
  /\ ret = "none"
  /\ last = [op |-> "none", kwargs |-> EmptyDict, calls |-> 0]
  /\ materialized = FALSE
  /\ heap = << filters >>
  /\ frames = << >>
  /\ dict_order = << >>
  /\ pf = NoFilter

\* line 116: self.chain(self._collector._filters)
ChainCall ==
  /\ phase = "live"
  /\ \E ord \in Orders(DOMAIN filters) :
       /\ dict_order' = ord
       /\ \E cp \in {copy(heap, 1)} :
            /\ heap' = cp.heap
            /\ frames' = << Frame(cp, 1, ord) >>
  /\ phase' = "chain"
  /\ last' = [op |-> "chain", kwargs |-> filters, calls |-> 0]
  /\ filters' = heap'[1]
  /\ UNCHANGED <<elements, revit_object, err, ret, materialized, vocabulary, pf>>

\* one pass of the loop body that does not raise (lines 138-151): the engine
\* call, the pop, and the entry into the recursive call
ChainApply ==
  /\ phase = "chain" /\ AtItem
  /\ LET filter_name == Top.items[Top.i]
     IN  /\ filter_name \in DOMAIN MAP
         /\ \E step \in {ApplyCriterion(revit_object, filter_name,
                                         heap[Top.filters][filter_name])} :
              /\ step.err = "none"
              /\ revit_object' = step.collector
              /\ last' = [last EXCEPT !.calls = @ + step.calls]
         /\ \E cp \in {copy([heap EXCEPT ![Top.filter_stack] = pop(@, filter_name)],
                              Top.filter_stack)} :
              /\ heap' = cp.heap
              /\ frames' = Append(frames, Frame(cp, Top.filter_stack, dict_order))
  /\ filters' = heap'[1]
  /\ UNCHANGED <<phase, elements, err, ret, materialized, vocabulary, dict_order, pf>>

\* a pass of the loop body that raises: KeyError at line 138, or the error of
\* the engine call; the exception unwinds every active call of chain
ChainRaise ==
  /\ phase = "chain" /\ AtItem
  /\ LET filter_name == Top.items[Top.i]
     IN  IF filter_name \notin DOMAIN MAP
         THEN /\ err' = "KeyError"
              /\ UNCHANGED <<revit_object, last>>
         ELSE \E step \in {ApplyCriterion(revit_object, filter_name,
                                           heap[Top.filters][filter_name])} :
                /\ step.err # "none"
                /\ err' = step.err
                /\ revit_object' = step.collector
                /\ last' = [last EXCEPT !.calls = @ + step.calls]
  /\ phase' = "raised"
  /\ frames' = << >>
  /\ UNCHANGED <<filters, elements, ret, materialized, vocabulary, heap, dict_order, pf>>

\* line 153: the loop is exhausted, the call returns `collector`; its caller
\* goes on with the next item (line 151 assigns the handle, line 137 advances)
ChainReturn ==
  /\ phase = "chain" /\ Len(frames) > 0 /\ ~AtItem
  /\ IF Len(frames) = 1
     THEN /\ frames' = << >>
          /\ phase' = "returned"
          /\ ret' = "handle"
     ELSE /\ frames' = [SubSeq(frames, 1, Len(frames) - 1)
                         EXCEPT ![Len(frames) - 1].i = @ + 1]
          /\ UNCHANGED <<phase, ret>>
  /\ UNCHANGED <<filters, elements, revit_object, err, last, materialized,
                 vocabulary, heap, dict_order, pf>>

NextChain == ChainCall \/ ChainApply \/ ChainRaise \/ ChainReturn

\* chain runs in the caller's thread: a step that can be taken is taken
SpecChain == InitChain /\ [][NextChain]_vars /\ WF_vars(NextChain)

-----------------------------------------------------------------------------
(* The construction of a ParameterFilter *)

InitRule ==
  /\ phase = "none"
  /\ filters = EmptyDict
  /\ elements = << >>
  /\ revit_object = None
  /\ err = "none"
  /\ ret = "none"
  /\ last = [op |-> "none", kwargs |-> EmptyDict, calls |-> 0]
  /\ materialized = FALSE
  /\ vocabulary = ConditionVocabulary
  /\ heap = << >>
  /\ frames = << >>
  /\ dict_order = << >>
  /\ pf = NoFilter

\* parameter_filter = ParameterFilter('Height', **conditions)
ParameterFilterNew ==
  /\ pf = NoFilter
  /\ \E conditions \in Kwargs(vocabulary) :
       \E ord \in Orders(DOMAIN conditions) :
         \E r \in {ParameterFilterInit("Height", conditions, ord)} :
           pf' = [ pc |-> "constructed", parameter_id |-> "Height",
                   conditions |-> conditions, order |-> ord,
                   self |-> r.self, made |-> r.made ]
  /\ UNCHANGED <<collectorVars, vocabulary, chainVars>>

NextRule == ParameterFilterNew

SpecRule == InitRule /\ [][NextRule]_vars

-----------------------------------------------------------------------------
(* Vocabulary of the properties *)

Range(seq) == {seq[i] : i \in 1..Len(seq)}

Supported(name) == name \in DOMAIN MAP

HasUnsupported(d) == \E n \in DOMAIN d : ~Supported(n)

BoolNames == {"is_element", "is_element_type", "is_view_independent"}

\* does the store element i satisfy the criterion name=value, read off the
\* criterion alone: a false toggle imposes nothing, a class or category value
\* selects the elements of that class or category, a rule those it passes
Satisfies(i, name, value) ==
  CASE value = PyFalse -> TRUE
    [] name = "of_class" -> value.kind = "type" /\ Store[i].class = value.val
    [] name = "of_category" -> value.kind = "cat" /\ Store[i].category = value.val
    [] name = "is_element" -> ~Store[i].is_type
    [] name = "is_element_type" -> Store[i].is_type
    [] name = "is_view_independent" -> Store[i].view_independent
    [] name = "parameter_filter" -> RulePasses(Store[i], value.val)
    [] OTHER -> TRUE

\* the store elements that satisfy every criterion of the map d
Satisfying(d) ==
  {i \in 1..Len(Store) : \A n \in DOMAIN d : Satisfies(i, n, d[n])}

\* the step is a filter call (the primed state is the one it leaves)
FilterStep == last'.op = "filter"

\* the step is a call, filter or constructor, whose chain ran: coercion
\* succeeded and there was something to apply or a filter call was made
ChainRan ==
  /\ last'.op \in {"filter", "new"}
  /\ coerce_filter_values(last'.kwargs).err = "none"
  /\ last'.op = "new" => last'.kwargs # EmptyDict

\* the criteria map that chain was given in this step
Chained == Merge(filters, coerce_filter_values(last'.kwargs).filters)

-----------------------------------------------------------------------------
(* C1 *)

\* C1: after any filter call that returned, `elements` is exactly the set of
\* store elements satisfying every criterion of the accumulated criteria at
\* its current values (a false toggle imposes nothing, an overwritten name
\* restricts only by its latest value).
C1_ElementsReflectCriteria ==
  (phase = "live" /\ materialized /\ err = "none")
    => Range(elements) = Satisfying(filters)

(* C2 *)

\* C2: a filter call that includes an unsupported criterion name fails and is
\* all-or-nothing: criteria, elements and the query handle are what they
\* were before the call.
C2_UnsupportedNameIsAtomic ==
  [][ (FilterStep /\ HasUnsupported(last'.kwargs))
        => /\ err' # "none"
           /\ filters' = filters
           /\ elements' = elements
           /\ revit_object' = revit_object ]_vars

(* C3 *)

\* C3: when the chain meets a criterion name that is not in the supported
\* map, the error raised is the dedicated unsupported-filter error
\* (RPW_Exception 'collector filter rule does not exist').
C3_UnsupportedNameRaisesRPWException ==
  [][ (FilterStep /\ ChainRan /\ HasUnsupported(Chained))
        => err' = "RPW_Exception" ]_vars

(* C4 *)

\* C4: monotonic narrowing: once a filter call (or a construction with
\* criteria) has returned, the element set left by any further filter call,
\* whatever its criteria (also one overwriting a name or turning a toggle
\* from true to false), is a subset of the element set held before it.
C4_MonotonicNarrowing ==
  [][ (FilterStep /\ materialized) => Range(elements') \subseteq Range(elements) ]_vars

\* a filter call has overwritten the class of an earlier call and returned
C4_Witness ==
  /\ last.op = "filter" /\ err = "none"
  /\ "of_class" \in DOMAIN last.kwargs
  /\ \E f \in revit_object.applied : f[1] = "OfClass" /\ f[2] # filters["of_class"]

(* C5 *)

\* C5 as stated: in every reachable state, also that of a freshly
\* constructed collector, filter() with no criteria leaves elements and
\* criteria unchanged.
C5_EmptyFilterIdempotent ==
  [][ (FilterStep /\ last'.kwargs = EmptyDict)
        => (elements' = elements /\ filters' = filters) ]_vars

\* C5 amended: filter() with no criteria leaves the criteria unchanged in
\* every state, and leaves elements unchanged in every state in which a
\* filter call (or a construction with criteria) has already returned; on a
\* collector never filtered with success it replaces the empty elements by
\* the enumeration of the query handle.
C5_EmptyFilterIdempotentOnceFiltered ==
  [][ (FilterStep /\ last'.kwargs = EmptyDict)
        => /\ filters' = filters
           /\ materialized => elements' = elements
           /\ (~materialized /\ err' = "none")
                => (elements = << >> /\ elements' = Enumerate(revit_object)) ]_vars

\* filter() was called on a collector holding criteria and returned
C5_Witness ==
  /\ last.op = "filter" /\ last.kwargs = EmptyDict /\ err = "none"
  /\ filters # EmptyDict /\ materialized

(* C6 *)

\* the value stored for name=value: the registered identifier for a string
\* shortcut of a category or class, the value itself otherwise
StoredValue(name, value) ==
  IF name = "of_category" /\ value.kind = "str" /\ value.val # ""
  THEN V("cat", CategoryRegistry[value.val])
  ELSE IF name = "of_class" /\ value.kind = "str" /\ value.val # ""
  THEN V("type", DBNamespace[value.val])
  ELSE value

\* C6: after a filter call that returned, the accumulated criteria hold every
\* name they held before plus every name of the call, each name of the call
\* maps to the (coerced) value supplied, every other name keeps its value,
\* and the call returned the collector it was made on.
C6_FilterMerges ==
  [][ (FilterStep /\ err' = "none")
        => /\ DOMAIN filters' = DOMAIN filters \cup DOMAIN last'.kwargs
           /\ \A n \in DOMAIN last'.kwargs :
                filters'[n] = StoredValue(n, last'.kwargs[n])
           /\ \A n \in DOMAIN filters \ DOMAIN last'.kwargs : filters'[n] = filters[n]
           /\ ret' = "self" ]_vars

\* a filter call returned on a collector that held other criteria already
C6_Witness ==
  /\ last.op = "filter" /\ err = "none" /\ ret = "self"
  /\ last.kwargs # EmptyDict
  /\ DOMAIN filters \ DOMAIN last.kwargs # {}

(* C7 *)

\* the dict d without the name n
Without(d, n) == [m \in DOMAIN d \ {n} |-> d[m]]

\* C7: for a toggle N the accumulated criteria do not hold, a filter call
\* passing N=False ends as the same call without N ends (same elements, and
\* it raises only if that call raises) and adds no restriction for N to the
\* handle; a call passing N=True that returns has added N's zero-argument
\* restriction and leaves a subset of the elements the call without N leaves.
C7_BooleanAsymmetry ==
  [][ FilterStep =>
        \A N \in (BoolNames \cap DOMAIN last'.kwargs) \ DOMAIN filters :
          \A without \in {Call(Self, Without(last'.kwargs, N), o) :
                            o \in Orders(DOMAIN filters \cup DOMAIN last'.kwargs)} :
                /\ last'.kwargs[N] = PyFalse =>
                     /\ elements' = without.c.elements
                     /\ (err' = "none") <=> (without.err = "none")
                     /\ <<MAP[N], NoArg>> \notin revit_object'.applied
                /\ (last'.kwargs[N] = PyTrue /\ err' = "none") =>
                     /\ <<MAP[N], NoArg>> \in revit_object'.applied
                     /\ without.err = "none"
                     /\ Range(elements') \subseteq Range(without.c.elements) ]_vars

\* a filter call passed a toggle as False and returned, the handle carries
\* no restriction for it
C7_Witness ==
  /\ last.op = "filter" /\ err = "none" /\ elements # << >>
  /\ \E N \in BoolNames \cap DOMAIN last.kwargs :
       /\ last.kwargs[N] = PyFalse
       /\ <<MAP[N], NoArg>> \notin revit_object.applied

(* C8 *)

ThreeNames == {"of_class", "is_element_type", "is_view_independent"}

\* C8: when the criteria map a filter call chains holds of_class,
\* is_element_type and is_view_independent, each of the six orders in which
\* chain can visit them yields the element set the call produced.
C8_OrderIndependence ==
  [][ (FilterStep /\ err' = "none" /\ DOMAIN filters' = ThreeNames)
        => \A o \in Orders(ThreeNames) :
             \A ch \in {chain(revit_object, filters', o, None)} :
               ch.err = "none" /\ Enumerate(ch.collector) = elements' ]_vars

\* a call chained the three names, all of them restricting, and matched
\* something
C8_Witness ==
  /\ last.op = "filter" /\ err = "none"
  /\ DOMAIN filters = ThreeNames
  /\ filters["is_element_type"] = PyTrue /\ filters["is_view_independent"] = PyTrue
  /\ Cardinality(revit_object.applied) = 3
  /\ elements # << >>

(* C9 *)

\* the registered shortcut names of a keyword and what they resolve to
Resolved(name) ==
  IF name = "of_category"
  THEN [s \in DOMAIN CategoryRegistry |-> V("cat", CategoryRegistry[s])]
  ELSE [s \in DOMAIN DBNamespace |-> V("type", DBNamespace[s])]

\* C9: a filter call passing a registered category (class) name s ends as
\* the same call passing the resolved identifier id(s) ends - same elements,
\* same accumulated criteria, same error or none - and stores id(s), never
\* the string; a non-string category or class is stored and handed to the
\* engine unchanged.
C9_CoercionEquivalence ==
  [][ FilterStep =>
        \A n \in {"of_category", "of_class"} \cap DOMAIN last'.kwargs :
          LET value == last'.kwargs[n]
          IN  /\ (value.kind = "str" /\ value.val \in DOMAIN Resolved(n)) =>
                   /\ \A byId \in
                          {Call(Self, setitem(last'.kwargs, n, Resolved(n)[value.val]), o) :
                             o \in Orders(DOMAIN filters \cup DOMAIN last'.kwargs)} :
                        /\ byId.c.elements = elements'
                        /\ byId.c.filters = filters'
                        /\ byId.err = err'
                   /\ err' = "none" => filters'[n] = Resolved(n)[value.val]
              /\ (value.kind # "str" /\ err' = "none") =>
                   /\ filters'[n] = value
                   /\ <<MAP[n], value>> \in revit_object'.applied ]_vars

\* a call passed the category by name, stored the identifier and matched
\* the walls
C9_Witness ==
  /\ last.op = "filter" /\ err = "none"
  /\ "of_category" \in DOMAIN last.kwargs
  /\ last.kwargs["of_category"] = V("str", "OST_Walls")
  /\ filters["of_category"] = V("cat", "-2000011")
  /\ elements # << >>

(* C10 *)

\* C10: constructing a collector with a view and no criteria succeeds and
\* yields an empty collector scoped to the view.
C10_ViewScopedConstruction ==
  (last.op = "new" /\ DOMAIN last.kwargs = {"view"})
    => /\ err = "none" /\ phase = "live"
       /\ elements = << >>
       /\ revit_object = FilteredElementCollector("view")

(* C11 *)

\* a string given for the keyword `name` that names no registered category
\* (class)
Unresolvable(name, value) ==
  value.kind = "str" /\ value.val \notin DOMAIN Resolved(name)

\* the errors a failed lookup of a string shortcut raises
LookupErrors == {"UnknownIdentifierError", "AttributeError"}

\* C11: a filter call whose of_category or of_class value is a string that
\* does not resolve fails with the error of the failed lookup before anything
\* is merged or applied: criteria, elements and query handle are as before
\* the call and the engine was not called.
C11_UnresolvedStringFailsBeforeMerge ==
  [][ (FilterStep /\ \E n \in {"of_category", "of_class"} \cap DOMAIN last'.kwargs :
                       Unresolvable(n, last'.kwargs[n]))
        => /\ err' \in LookupErrors
           /\ filters' = filters
           /\ elements' = elements
           /\ revit_object' = revit_object
           /\ last'.calls = 0 ]_vars

(* C12 *)

\* the handle chain starts from in this step: the collector's own handle,
\* which the constructor has just created when the step is a construction
ChainBase ==
  IF last'.op = "new" THEN FilteredElementCollector("doc") ELSE revit_object

\* C12: the handle a chain returns enumerates exactly the elements of the
\* base handle that satisfy every criterion of the chained mapping (a false
\* toggle imposes nothing, every other value restricts), in the base
\* handle's order; the handle the collector keeps is the one enumerated.
C12_ChainThreadsRestrictions ==
  [][ (ChainRan /\ err' = "none")
        => /\ elements' = SelectSeq(Enumerate(ChainBase),
                                    LAMBDA i : \A n \in DOMAIN filters' :
                                                 Satisfies(i, n, filters'[n]))
           /\ elements' = Enumerate(revit_object') ]_vars

\* a chain over two restricting criteria and a false toggle returned a
\* handle that is narrower than its base and not empty
C12_Witness ==
  /\ last.op = "filter" /\ err = "none"
  /\ \E n \in DOMAIN filters : filters[n] = PyFalse
  /\ Cardinality({n \in DOMAIN filters : filters[n] # PyFalse}) >= 2
  /\ Cardinality(revit_object.applied) >= 2
  /\ elements # << >> /\ Len(elements) < Len(Store)

(* C13 *)

\* C13: a chain over a mapping of n entries whose values all restrict calls
\* the engine n times, once per entry.
C13_OneEngineCallPerEntry ==
  (last.op = "filter" /\ err = "none" /\ \A n \in DOMAIN filters : filters[n] # PyFalse)
    => last.calls = Cardinality(DOMAIN filters)

(* C19 *)

\* C19: when the last filter call failed because of an unsupported criterion
\* name, a filter call that supplies only supported criteria returns and
\* replaces `elements` by the enumeration of its chain's handle.
C19_RecoversAfterUnsupportedName ==
  [][ (/\ FilterStep
       /\ last.op = "filter" /\ err = "KeyError" /\ HasUnsupported(last.kwargs)
       /\ ~HasUnsupported(last'.kwargs))
        => (err' = "none" /\ elements' = Enumerate(revit_object')) ]_vars

(* C20 *)

\* C20: a filter call that fails, whatever raised - the lookup of a string
\* shortcut, an unsupported name, the engine in mid-chain - leaves `elements`
\* as it was before the call.
C20_FailedCallKeepsElements ==
  [][ (FilterStep /\ err' # "none") => elements' = elements ]_vars

\* a filter call failed in the engine, after an engine call of the same chain
\* had restricted the handle, on a collector that holds elements
C20_Witness ==
  /\ last.op = "filter" /\ err = "TypeError" /\ last.calls >= 2
  /\ materialized /\ elements # << >>
  /\ elements # Enumerate(revit_object)

(* C14 *)

\* C14: chain does not change the dict it is given: in every step of a chain
\* (an engine call and pop, the entry into a recursive call, a return, a
\* raise) the dict given to each active call of chain, at every depth, has
\* after the step the content it had when that call was entered, and
\* Collector._filters, the dict of the top-level call, keeps the content it
\* was passed with; only the work queues lose entries.
C14_ChainKeepsItsMapping ==
  [][ /\ \A k \in 1..Len(frames) : heap'[frames[k].filters] = frames[k].given
      /\ phase' \in {"chain", "returned", "raised"}
           => (heap'[1] = last'.kwargs /\ filters' = last'.kwargs) ]_vars

\* a chain over two entries has returned: the dict it was given is intact and
\* work queues have lost their entries
C14_Witness ==
  /\ phase = "returned"
  /\ Cardinality(DOMAIN last.kwargs) = 2
  /\ heap[1] = last.kwargs
  /\ \E r \in 2..Len(heap) : heap[r] = EmptyDict

(* C15 *)

\* every value of the mapping is one the engine method of its name takes
EngineValid(d) ==
  \A n \in DOMAIN d \cap DOMAIN MAP :
    \/ isinstance(d[n], "bool")
    \/ isinstance(d[n], "pf") /\ has_revit_object(d[n])
    \/ ~isinstance(d[n], "pf") /\ EngineAccepts(MAP[n], d[n])

\* C15: chain terminates: every recursive call is entered with a mapping of
\* strictly fewer entries than its caller's, a call given the empty mapping
\* makes no call, every chain that is called ends, and a chain over supported
\* names whose values the engine takes ends by returning the handle.
C15_ChainTerminates ==
  /\ [][ (Len(frames) > 0 /\ Len(frames') > Len(frames))
           => Cardinality(DOMAIN frames'[Len(frames')].given)
                < Cardinality(DOMAIN Top.given) ]_vars
  /\ [][ (Len(frames) > 0 /\ Top.given = EmptyDict) => Len(frames') < Len(frames) ]_vars
  /\ (phase = "chain") ~> (phase \in {"returned", "raised"})
  /\ (phase = "chain" /\ ~HasUnsupported(last.kwargs) /\ EngineValid(last.kwargs))
       ~> (phase = "returned" /\ ret = "handle" /\ frames = << >>)

\* a chain over two restricting entries has returned after recursing to the
\* empty mapping
C15_Witness ==
  /\ phase = "returned" /\ ret = "handle"
  /\ Cardinality(DOMAIN last.kwargs) = 2
  /\ \A n \in DOMAIN last.kwargs : last.kwargs[n] # PyFalse
  /\ last.calls = 3
  /\ Len(heap) = 5

(* C16 *)

\* a ParameterFilter has been constructed
Constructed == pf.pc = "constructed"

\* the recognised comparators among the conditions, in iteration order
Comparators == SelectSeq(pf.order, LAMBDA x : x \in DOMAIN RULES)

\* the tolerance passed with a floating-point operand
FixedTolerance == V("float", "1.0")

\* C16: the arguments of every factory call depend only on the type of the
\* operand: (parameter_id, operand, case_sensitive condition or true) for a
\* textual operand, (parameter_id, operand, the fixed tolerance) for a
\* floating-point operand whatever `precision` is, (parameter_id, operand)
\* for an integer operand; the factory is the one of the comparator, and the
\* predicate wraps the rule with the `reverse` condition or false.
C16_RuleArgumentsByOperandType ==
  Constructed =>
    /\ Len(pf.made) = Len(Comparators)
    /\ \A k \in 1..Len(pf.made) :
         LET operand == pf.conditions[Comparators[k]]
         IN  /\ pf.made[k].factory = RULES[Comparators[k]]
             /\ pf.made[k].args =
                  CASE operand.kind = "str" ->
                         << pf.parameter_id, operand,
                            IF "case_sensitive" \in DOMAIN pf.conditions
                            THEN pf.conditions["case_sensitive"] ELSE PyTrue >>
                    [] operand.kind = "float" ->
                         << pf.parameter_id, operand, FixedTolerance >>
                    [] OTHER -> << pf.parameter_id, operand >>
    /\ "_revit_object" \in DOMAIN pf.self =>
         /\ pf.self["_revit_object"].rule \in Range(pf.made)
         /\ pf.self["_revit_object"].inverted =
              IF "reverse" \in DOMAIN pf.conditions
              THEN pf.conditions["reverse"] ELSE PyFalse

\* a rule was built from a floating-point operand while a `precision`
\* condition was given
C16_Witness ==
  /\ Constructed
  /\ "precision" \in DOMAIN pf.conditions
  /\ \E k \in 1..Len(pf.made) :
       pf.made[k].args[2].kind = "float" /\ Len(pf.made[k].args) = 3
  /\ "_revit_object" \in DOMAIN pf.self

(* C17 *)

\* C17: every ParameterFilter that construction returns carries the
\* predicate the chain passes to the engine, built from one comparator of its
\* conditions, whatever the conditions are.
C17_EveryRuleCarriesPredicate ==
  Constructed =>
    /\ "_revit_object" \in DOMAIN pf.self
    /\ Cardinality({n \in DOMAIN pf.conditions \cap DOMAIN RULES :
                      pf.self["_revit_object"].rule.factory = RULES[n]}) = 1

(* C18 *)

\* C18: when the conditions hold more than one recognised comparator, the
\* stored predicate is the one built from the comparator that comes last in
\* iteration order - its factory, its operand, its modifier - and from no
\* other.
C18_LastComparatorWins ==
  (Constructed /\ Len(Comparators) > 1) =>
    LET winner == Comparators[Len(Comparators)]
    IN  /\ "_revit_object" \in DOMAIN pf.self
        /\ pf.self["_revit_object"].rule = pf.made[Len(pf.made)]
        /\ pf.self["_revit_object"].rule.factory = RULES[winner]
        /\ pf.self["_revit_object"].rule.args[2] = pf.conditions[winner]
        /\ \A n \in Range(Comparators) \ {winner} :
             pf.self["_revit_object"].rule.factory # RULES[n]

\* two comparators with different operands were given and the second one in
\* iteration order is stored
C18_Witness ==
  /\ Constructed /\ Len(Comparators) = 2
  /\ pf.conditions[Comparators[1]] # pf.conditions[Comparators[2]]
  /\ pf.self["_revit_object"].rule.args[2] = pf.conditions[Comparators[2]]

====
